---- MODULE Spec2Model ----
(***************************************************************************)
(* Capacitated pickup / delivery solvers of the repository:               *)
(*   cargo_optimization_pulp.py / new_look.py : optimize_pulp             *)
(*   fleet_vrp_gradio_app.py                  : solve_vrp, print_solution *)
(*   vrp_gradio_app.py                        : solve_vrp, print_solution *)
(*   Metaheuristic Route Searcher (specification) : solveHeuristic        *)
(* Every solver is a synchronous call: Init draws the arguments of one    *)
(* call, one action per entry point runs the whole call and records what  *)
(* it returns.                                                             *)
(***************************************************************************)
EXTENDS Integers, Sequences, FiniteSets, TLC

VARIABLES app, pc, cargo, capacity_text, demands, vehicle_capacities,
          num_vehicles, load_factor, vehicle_capacity, outcome

vars == <<app, pc, cargo, capacity_text, demands, vehicle_capacities,
          num_vehicles, load_factor, vehicle_capacity, outcome>>

(***************************************************************************)
(* Bounds of the explored inputs.                                          *)
(***************************************************************************)
MaxCargo == 1
MaxTokens == 1
MaxDemand == 1
MaxCap == 2
MaxVehicles == 2
MaxVehicleCapacity == 4
MaxLoadFactor == 1

(***************************************************************************)
(* Arithmetic helpers.                                                     *)
(***************************************************************************)
RECURSIVE SumOver(_, _)
SumOver(S, f) ==
    IF S = {} THEN 0
    ELSE LET e == CHOOSE e \in S : TRUE IN f[e] + SumOver(S \ {e}, f)

RECURSIVE SumSeq(_)
SumSeq(s) == IF s = <<>> THEN 0 ELSE Head(s) + SumSeq(Tail(s))

(***************************************************************************)
(* cargo_optimization_pulp.py / new_look.py                                *)
(***************************************************************************)
num_cities == 5
Cities == 0 .. (num_cities - 1)

distances_to_durban == [j \in Cities |-> <<568, 635, 569, 330, 392>>[j + 1]]

\* The text of the capacity box, split at the commas: a token is the decimal
\* text of an integer (possibly padded with blanks), blank, or some other word.
IntToken(n) == [kind |-> "int", val |-> n]
BlankToken == [kind |-> "blank", val |-> 0]
WordToken == [kind |-> "word", val |-> 0]

\* [int(c.strip()) for c in text.split(',') if c.strip()]: blank tokens are
\* skipped, int() raises ValueError on a token that is no integer.
ParseRaises(text) == \E k \in 1 .. Len(text) : text[k].kind = "word"

ParseCapacities(text) ==
    LET kept == SelectSeq(text, LAMBDA t : t.kind # "blank")
    IN [k \in 1 .. Len(kept) |-> kept[k].val]

Vehicles(caps) == 0 .. (Len(caps) - 1)

\* x as the solver reports it: x[i] is the set of cities j with value(x[i,j]) == 1.
\* City_j_Coverage: sum_i x[i,j] == 1, i.e. the binary points in which every
\* city sits on exactly one vehicle.
CoveragePoints(caps) ==
    { [i \in Vehicles(caps) |-> {j \in Cities : a[j] = i}] :
          a \in [Cities -> Vehicles(caps)] }

\* Mutant of CapacityRow: the cargo coefficients are left out of the row.
CapacityRow_unweighted(x, crg, caps, i) == Cardinality(x[i]) <= caps[i + 1]

\* Capacity_Vehicle_i: sum_j cargo[j] * x[i,j] <= vehicle_capacities[i]
CapacityRow(x, crg, caps, i) == SumOver(x[i], crg) <= caps[i + 1]

CapacityConstraints(x, crg, caps) ==
    \A i \in Vehicles(caps) : CapacityRow(x, crg, caps, i)

\* Cargo_Exact_Pickup_City_j: sum_i x[i,j] * cargo[j] == cargo[j]
CargoExact(x, crg, caps) ==
    \A j \in Cities :
        Cardinality({i \in Vehicles(caps) : j \in x[i]}) * crg[j] = crg[j]

\* "Total_Distance": sum_i sum_j distances_to_durban[j] * x[i,j]
Objective(x, caps) ==
    SumSeq([k \in 1 .. Len(caps) |-> SumOver(x[k - 1], distances_to_durban)])

FeasibleRegion(crg, caps) ==
    { x \in CoveragePoints(caps) :
          CapacityConstraints(x, crg, caps) /\ CargoExact(x, crg, caps) }

\* prob.solve(): with a non-empty feasible region the solver returns a point of
\* minimum objective.  Otherwise the status is not Optimal and the values left
\* in the variables are unspecified: any 0/1 reading of x may come back.
SolverValues(crg, caps) ==
    LET F == FeasibleRegion(crg, caps)
        values == { Objective(x, caps) : x \in F }
        best == CHOOSE m \in values : \A n \in values : m <= n
    IN IF F # {}
       THEN { x \in F : Objective(x, caps) = best }
       ELSE [Vehicles(caps) -> SUBSET Cities]

\* Mutant of HasLine: the emptiness test is dropped.
HasLine_always(x, i) == TRUE

\* A model without a single variable (no vehicle): whether the solver call
\* returns or raises then is left to the library.
SolveMayRaise(caps) == Len(caps) = 0

\* One line of the report per vehicle whose vehicle_route is non-empty.
HasLine(x, i) == x[i] # {}

ReportLine(x, crg, i) ==
    [vehicle |-> i + 1, route |-> x[i], vehicle_cargo |-> SumOver(x[i], crg)]

\* Mutant of route_distance: the distance is looked up by the vehicle's index
\* instead of the city's.
route_distance_by_vehicle(x, i) == Cardinality(x[i]) * distances_to_durban[i]

\* Mutant of route_distance: the sum starts at the second city.
route_distance_from_second(x, i) == SumOver(x[i] \ {0}, distances_to_durban)

route_distance(x, i) == SumOver(x[i], distances_to_durban)

RECURSIVE ReportLines(_, _, _, _)
ReportLines(x, crg, i, n) ==
    IF i >= n THEN <<>>
    ELSE (IF HasLine(x, i) THEN <<ReportLine(x, crg, i)>> ELSE <<>>)
         \o ReportLines(x, crg, i + 1, n)

\* Mutant of total_distance: the loop stops one vehicle early.
RECURSIVE total_distance_skip_last(_, _, _)
total_distance_skip_last(x, i, n) ==
    IF i >= n - 1 THEN 0
    ELSE (IF x[i] # {} THEN SumOver(x[i], distances_to_durban) ELSE 0)
         + total_distance_skip_last(x, i + 1, n)

RECURSIVE total_distance(_, _, _)
total_distance(x, i, n) ==
    IF i >= n THEN 0
    ELSE (IF HasLine(x, i) THEN route_distance(x, i) ELSE 0)
         + total_distance(x, i + 1, n)

NoOutcome ==
    [kind |-> "none", solution |-> <<>>, lines |-> <<>>, total_distance |-> 0,
     total_load |-> 0, total_fuel |-> 0]

PulpReport(x, crg, caps) ==
    [kind |-> "report",
     solution |-> x,
     lines |-> ReportLines(x, crg, 0, Len(caps)),
     total_distance |-> total_distance(x, 0, Len(caps)),
     total_load |-> 0, total_fuel |-> 0]

Raised == [NoOutcome EXCEPT !.kind = "raised"]


(***************************************************************************)
(* fleet_vrp_gradio_app.py / vrp_gradio_app.py: the routing data           *)
(***************************************************************************)
num_nodes == 5
depot == 0
Nodes == 0 .. (num_nodes - 1)
CityNodes == Nodes \ {depot}

distance_matrix ==
    [a \in Nodes |-> [b \in Nodes |->
        << <<0, 568, 634, 569, 392>>,
           <<568, 0, 121, 595, 100>>,
           <<634, 121, 0, 712, 216>>,
           <<569, 595, 712, 0, 497>>,
           <<392, 100, 216, 497, 0>> >>[a + 1][b + 1]]]

\* Every order in which the nodes of S can be visited.
RECURSIVE Orders(_)
Orders(S) ==
    IF S = {} THEN {<<>>}
    ELSE UNION { { <<c>> \o p : p \in Orders(S \ {c}) } : c \in S }

\* The routing model has no disjunction: every non-depot node is on exactly one
\* vehicle's route.  Routings(0, n, CityNodes) are the ways n vehicles can share
\* the nodes, as sequences of n routes (a route lists the nodes between the
\* start and the end depot).
RECURSIVE Routings(_, _, _)
Routings(v, n, rest) ==
    IF v >= n THEN (IF rest = {} THEN {<<>>} ELSE {})
    ELSE UNION { { <<p>> \o tl : p \in Orders(S), tl \in Routings(v + 1, n, rest \ S) } :
                    S \in SUBSET rest }

\* The routings of the fleets explored, by number of vehicles.
RoutingsOf == [n \in 1 .. (MaxVehicles + 1) |-> Routings(0, n, CityNodes)]

\* The stops of a route, start and end depot included.
Stops(route) == <<depot>> \o route \o <<depot>>

\* Values of the 'Capacity' dimension along a route, one per stop.  The transit
\* of a stop is added when the vehicle leaves it: cumul(next) = cumul(stop) +
\* demand_callback(stop), slack 0.
RECURSIVE CumulFrom(_, _, _)
CumulFrom(stops, transit, c) ==
    IF Len(stops) <= 1 THEN <<c>>
    ELSE <<c>> \o CumulFrom(Tail(stops), transit, c + transit[Head(stops)])

CumulVar(route, transit, start) == CumulFrom(Stops(route), transit, start)

\* AddDimensionWithVehicleCapacity: every cumul lies in 0 .. capacity.
CumulInRange(cumuls, cap) ==
    \A k \in 1 .. Len(cumuls) : 0 <= cumuls[k] /\ cumuls[k] <= cap

\* Sum of the arcs of a sequence of stops.
RECURSIVE ArcSum(_)
ArcSum(stops) ==
    IF Len(stops) <= 1 THEN 0
    ELSE distance_matrix[stops[1]][stops[2]] + ArcSum(Tail(stops))


(***************************************************************************)
(* fleet_vrp_gradio_app.py                                                 *)
(***************************************************************************)
\* The load-factor box holds text: hundredths written with a dot or a comma as
\* decimal separator, or some other word.
\* float(load_factor.replace(',', '.')) raises ValueError on a word.
LoadFactorRaises(text) == text.sep \notin {".", ","}

\* The parsed load factor, in hundredths (0.01 is 1).
ParseLoadFactor(text) == text.hundredths

\* data['demands'] = [0] + [-d for d in demands[1:]]
\* Mutant of DeliveryDemands: every entry is negated, the depot's included.
DeliveryDemands_depot_kept(dem) == [n \in Nodes |-> 0 - dem[n]]

\* data['demands'] = [0] + [-d for d in demands[1:]]
DeliveryDemands(dem) == [n \in Nodes |-> IF n = depot THEN 0 ELSE 0 - dem[n]]

\* RoutingIndexManager and AddDimensionWithVehicleCapacity accept the data only
\* with at least one vehicle and one capacity per vehicle.
RoutingDataAccepted(caps, nv) == nv >= 1 /\ Len(caps) = nv

\* Mutant of FleetRouteFeasible: the dimension has no lower bound.
FleetRouteFeasible_unbounded_below(route, dem, cap) ==
    LET cumuls == CumulVar(route, DeliveryDemands(dem), cap)
    IN \A k \in 1 .. Len(cumuls) : cumuls[k] <= cap

\* Start cumuls are set to the capacities; a solution keeps every cumul of every
\* vehicle within 0 .. capacity.
FleetRouteFeasible(route, dem, cap) ==
    CumulInRange(CumulVar(route, DeliveryDemands(dem), cap), cap)

\* Mutant of FleetSolutions: nodes may be dropped (every routing of every
\* subset of the nodes is a candidate).
FleetSolutions_droppable(dem, caps, nv) ==
    { r \in UNION { Routings(0, nv, S) : S \in SUBSET CityNodes } :
          \A v \in 1 .. nv : FleetRouteFeasible(r[v], dem, caps[v]) }

FleetSolutions(dem, caps, nv) ==
    { r \in RoutingsOf[nv] :
          \A v \in 1 .. nv : FleetRouteFeasible(r[v], dem, caps[v]) }

\* The while loop of print_solution over the indices before the end index.
RECURSIVE FleetWhile(_, _, _, _, _)
FleetWhile(stops, cumuls, lf, k, acc) ==
    IF k > Len(stops) - 1 THEN acc
    ELSE LET load == cumuls[k]
             moved == k > 1
             distance == IF moved THEN distance_matrix[stops[k - 1]][stops[k]] ELSE 0
             fuel == distance * (100 + lf * acc.route_load)
         IN FleetWhile(stops, cumuls, lf, k + 1,
                [route_distance |-> acc.route_distance + distance,
                 route_fuel |-> acc.route_fuel + (IF moved THEN fuel ELSE 0),
                 route_load |-> IF moved THEN load ELSE acc.route_load,
                 load |-> load,
                 loads |-> Append(acc.loads, load),
                 fuels |-> IF moved THEN Append(acc.fuels, fuel) ELSE acc.fuels])

\* One vehicle's part of the report.  Fuel is kept in hundredths of a unit.
FleetRoute(vehicle_id, route, dem, cap, lf) ==
    LET stops == Stops(route)
        cumuls == CumulVar(route, DeliveryDemands(dem), cap)
        acc == FleetWhile(stops, cumuls, lf, 1,
                   [route_distance |-> 0, route_fuel |-> 0, route_load |-> cap,
                    load |-> cap, loads |-> <<>>, fuels |-> <<>>])
        n == Len(stops)
        distance == distance_matrix[stops[n - 1]][stops[n]]
        fuel == distance * (100 + lf * acc.route_load)
    IN [vehicle |-> vehicle_id,
        stops |-> stops,
        loads |-> Append(acc.loads, acc.load),
        route_distance |-> acc.route_distance + distance,
        final_load |-> acc.load,
        fuels |-> Append(acc.fuels, fuel),
        route_fuel |-> acc.route_fuel + fuel]

FleetLines(sol, dem, caps, nv, lf) ==
    [k \in 1 .. nv |-> FleetRoute(k - 1, sol[k], dem, caps[k], lf)]

FleetTotalLoad(lines, caps) ==
    SumSeq([k \in 1 .. Len(lines) |-> caps[k] - lines[k].final_load])

FleetReport(sol, dem, caps, nv, lf) ==
    LET lines == FleetLines(sol, dem, caps, nv, lf)
    IN [kind |-> "report",
        solution |-> sol,
        lines |-> lines,
        total_distance |-> SumSeq([k \in 1 .. nv |-> lines[k].route_distance]),
        total_load |-> FleetTotalLoad(lines, caps),
        total_fuel |-> SumSeq([k \in 1 .. nv |-> lines[k].route_fuel])]

NoSolution == [NoOutcome EXCEPT !.kind = "no_solution"]
ErrorOccurred == [NoOutcome EXCEPT !.kind = "error"]
Aborted == [NoOutcome EXCEPT !.kind = "aborted"]

(***************************************************************************)
(* vrp_gradio_app.py                                                       *)
(***************************************************************************)
\* data['demands'] holds the five demands as entered, the depot's included; the
\* start cumul is fixed to zero.
\* Mutant of VrpRouteFeasible: the depot's demand is taken as 0.
VrpRouteFeasible_depot_free(route, dem, cap) ==
    CumulInRange(CumulVar(route, [dem EXCEPT ![depot] = 0], 0), cap)

VrpRouteFeasible(route, dem, cap) == CumulInRange(CumulVar(route, dem, 0), cap)

VrpSolutions(dem, cap) ==
    { r \in RoutingsOf[1] : VrpRouteFeasible(r[1], dem, cap) }

\* The while loop of print_solution: the arc cost of every arc up to the end.
RECURSIVE VrpWhile(_, _, _)
VrpWhile(stops, k, dist) ==
    IF k > Len(stops) - 1 THEN dist
    ELSE VrpWhile(stops, k + 1, dist + distance_matrix[stops[k]][stops[k + 1]])

\* Mutant of ObjectiveValue: the arc back to the depot is not counted.
ObjectiveValue_open(route) == ArcSum(<<depot>> \o route)

\* solution.ObjectiveValue(): the arc costs of the route.
ObjectiveValue(route) == ArcSum(Stops(route))

VrpReport(sol) ==
    LET stops == Stops(sol[1])
        dist == VrpWhile(stops, 1, 0)
    IN [kind |-> "report",
        solution |-> sol,
        lines |-> << [vehicle |-> 0, stops |-> stops, route_distance |-> dist] >>,
        total_distance |-> ObjectiveValue(sol[1]),
        total_load |-> 0, total_fuel |-> 0]


(***************************************************************************)
(* Metaheuristic Route Searcher (solveHeuristic): its code is not among    *)
(* the source files; modelled from sections 3, 4.3, 6 and 7 of the         *)
(* specification.                                                          *)
(***************************************************************************)
NoRoutes(caps) == [v \in 1 .. Len(caps) |-> <<>>]

\* Mutant of decode: a city that meets exhausted vehicles is dropped without
\* being recorded.
RECURSIVE decode_silent(_, _, _, _, _, _, _)
decode_silent(perm, dem, caps, placeAnyway, v, load, acc) ==
    IF perm = <<>> THEN acc
    ELSE LET c == Head(perm)
         IN IF v > Len(caps)
            THEN decode_silent(Tail(perm), dem, caps, placeAnyway, v, load, acc)
            ELSE IF load + dem[c] <= caps[v]
            THEN decode_silent(Tail(perm), dem, caps, placeAnyway, v, load + dem[c],
                               [acc EXCEPT !.routes[v] = Append(@, c)])
            ELSE IF placeAnyway /\ v + 1 <= Len(caps)
            THEN decode_silent(Tail(perm), dem, caps, placeAnyway, v + 1, dem[c],
                               [acc EXCEPT !.routes[v + 1] = Append(@, c)])
            ELSE decode_silent(perm, dem, caps, placeAnyway, v + 1, 0, acc)

\* Decoding of an individual: the permutation is walked greedily, the current
\* vehicle v is filled until the next city's demand would exceed its capacity,
\* then the next vehicle is taken (index order, no return); when the vehicles
\* are exhausted the remaining cities are unserved.  The specification leaves
\* open whether the city that caused the advance is tested again against the
\* next vehicle or placed on it as it is (an overloaded vehicle is penalized):
\* placeAnyway selects the reading.
RECURSIVE decode(_, _, _, _, _, _, _)
decode(perm, dem, caps, placeAnyway, v, load, acc) ==
    IF perm = <<>> THEN acc
    ELSE LET c == Head(perm)
         IN IF v > Len(caps)
            THEN decode(Tail(perm), dem, caps, placeAnyway, v, load,
                        [acc EXCEPT !.unservedCities = @ \cup {c}])
            ELSE IF load + dem[c] <= caps[v]
            THEN decode(Tail(perm), dem, caps, placeAnyway, v, load + dem[c],
                        [acc EXCEPT !.routes[v] = Append(@, c)])
            ELSE IF placeAnyway /\ v + 1 <= Len(caps)
            THEN decode(Tail(perm), dem, caps, placeAnyway, v + 1, dem[c],
                        [acc EXCEPT !.routes[v + 1] = Append(@, c)])
            ELSE decode(perm, dem, caps, placeAnyway, v + 1, 0, acc)

\* A route of the shared Solution: each stop is costed as a depot round trip
\* distance(depot, city).
HeuristicRoute(v, cities, dem) ==
    [vehicle |-> v,
     stops |-> cities,
     load |-> SumSeq([k \in 1 .. Len(cities) |-> dem[cities[k]]]),
     route_distance |->
         SumSeq([k \in 1 .. Len(cities) |-> distance_matrix[depot][cities[k]]])]

\* Vehicles without a city produce no route.
RECURSIVE HeuristicRoutes(_, _, _)
HeuristicRoutes(routes, dem, v) ==
    IF v > Len(routes) THEN <<>>
    ELSE (IF routes[v] # <<>> THEN <<HeuristicRoute(v, routes[v], dem)>> ELSE <<>>)
         \o HeuristicRoutes(routes, dem, v + 1)

\* The Solution returned for the best individual.
HeuristicSolution(perm, dem, caps, placeAnyway) ==
    LET d == decode(perm, dem, caps, placeAnyway, 1, 0,
                    [routes |-> NoRoutes(caps), unservedCities |-> {}])
        lines == HeuristicRoutes(d.routes, dem, 1)
    IN [kind |-> "report",
        solution |-> perm,
        lines |-> lines,
        total_distance |-> SumSeq([k \in 1 .. Len(lines) |-> lines[k].route_distance]),
        total_load |-> SumSeq([k \in 1 .. Len(lines) |-> lines[k].load]),
        total_fuel |-> 0,
        unservedCities |-> d.unservedCities]


(***************************************************************************)
(* The calls explored.                                                     *)
(***************************************************************************)
NoDemands == [n \in Nodes |-> 0]
NoLoadFactor == [sep |-> ".", hundredths |-> 0]

Tokens == { IntToken(n) : n \in 1 .. MaxCap } \cup {BlankToken, WordToken}
CapacityTexts == UNION { [1 .. n -> Tokens] : n \in 0 .. MaxTokens }
\* Two capacities, well formed.
TwoVehicleTexts == { <<IntToken(a), IntToken(b)>> : a, b \in 1 .. MaxCap }
CapacityLists == UNION { [1 .. n -> 1 .. MaxCap] : n \in 1 .. MaxVehicles }

\* The values the forms of the three applications start with.
PulpDefaultCargo == [j \in Cities |-> <<2, 1, 3, 2, 6>>[j + 1]]
PulpDefaultText == [k \in 1 .. 5 |-> IntToken(<<5, 5, 5, 3, 8>>[k])]
FleetDefaultDemands == [n \in Nodes |-> <<0, 1, 3, 2, 4>>[n + 1]]
VrpDefaultDemands == [n \in Nodes |-> <<0, 1, 1, 2, 4>>[n + 1]]

\* A quantity entered below zero in one place.
OneNegative(base) == { [base EXCEPT ![k] = 0 - 1] : k \in DOMAIN base }

PulpCalls ==
    (OneNegative([j \in Cities |-> 1])
        \X {<<IntToken(MaxCap)>>, <<IntToken(MaxCap), IntToken(MaxCap)>>})
    \cup ({PulpDefaultCargo} \X {PulpDefaultText, <<IntToken(8)>>,
                                  <<IntToken(5), IntToken(5)>>})
    \cup ([Cities -> 0 .. MaxCargo] \X (CapacityTexts \cup TwoVehicleTexts))

InitPulp ==
    /\ app = "pulp"
    /\ pc = "call"
    /\ \E c \in PulpCalls : cargo = c[1] /\ capacity_text = c[2]
    /\ demands = NoDemands
    /\ vehicle_capacities = <<>>
    /\ num_vehicles = 0
    /\ load_factor = NoLoadFactor
    /\ vehicle_capacity = 0
    /\ outcome = NoOutcome

\* The load factor the form starts with: "0.01".
DefaultLoadFactor == [sep |-> ".", hundredths |-> 1]

LoadFactorTexts ==
    { [sep |-> sp, hundredths |-> h] : sp \in {".", ",", "x"}, h \in 0 .. MaxLoadFactor }

\* Fleets tried on the default demands (total 10, largest 4).
DefaultFleets == { <<5, 5>>, <<10>>, <<3, 3>>, <<4, 6>>, <<5, 4>> }

\* Integers entered in the depot's demand box.
DepotEntries == {0 - 2, 0, 7}

\* <<demands, vehicle_capacities, num_vehicles, load_factor>>
FleetCalls ==
    { <<d, c, Len(c), DefaultLoadFactor>> :
          d \in { dd \in [Nodes -> 0 .. MaxDemand] : dd[depot] = 0 },
          c \in CapacityLists }
    \cup { <<FleetDefaultDemands, c, Len(c), lf>> :
               c \in DefaultFleets, lf \in LoadFactorTexts }
    \cup { <<FleetDefaultDemands, <<5, 5>>, nv, DefaultLoadFactor>> : nv \in 0 .. 3 }
    \cup { <<d, <<>>, 0, DefaultLoadFactor>> : d \in {NoDemands, FleetDefaultDemands} }
    \cup { <<d, <<MaxCap, MaxCap>>, 2, DefaultLoadFactor>> :
               d \in OneNegative([n \in Nodes |-> 1]) }
    \cup { <<[FleetDefaultDemands EXCEPT ![depot] = e], c, Len(c), DefaultLoadFactor>> :
               e \in DepotEntries, c \in DefaultFleets }
    \cup { <<d, <<MaxCap>>, 1, DefaultLoadFactor>> :
               d \in { dd \in [Nodes -> 0 .. MaxDemand] : dd[depot] = MaxDemand } }

InitFleet ==
    /\ app = "fleet"
    /\ pc = "call"
    /\ cargo = NoDemands
    /\ capacity_text = <<>>
    /\ \E c \in FleetCalls :
          /\ demands = c[1]
          /\ vehicle_capacities = c[2]
          /\ num_vehicles = c[3]
          /\ load_factor = c[4]
    /\ vehicle_capacity = 0
    /\ outcome = NoOutcome

VrpCalls ==
    ([Nodes -> 0 .. MaxDemand] \X (0 .. MaxVehicleCapacity))
    \cup {<<VrpDefaultDemands, 5>>, <<VrpDefaultDemands, 8>>}
    \cup (OneNegative([n \in Nodes |-> 1]) \X {MaxVehicleCapacity})

InitVrp ==
    /\ app = "vrp"
    /\ pc = "call"
    /\ cargo = NoDemands
    /\ capacity_text = <<>>
    /\ \E c \in VrpCalls : demands = c[1] /\ vehicle_capacity = c[2]
    /\ vehicle_capacities = <<>>
    /\ num_vehicles = 1
    /\ load_factor = NoLoadFactor
    /\ outcome = NoOutcome

\* <<demand, vehicleCapacities>> of the instances given to solveHeuristic.
HeuristicCalls ==
    ({ d \in [Nodes -> 0 .. MaxDemand] : d[depot] = 0 } \X CapacityLists)
    \cup ({FleetDefaultDemands} \X DefaultFleets)

InitHeuristic ==
    /\ app = "heuristic"
    /\ pc = "call"
    /\ cargo = NoDemands
    /\ capacity_text = <<>>
    /\ \E c \in HeuristicCalls :
          /\ demands = c[1]
          /\ vehicle_capacities = c[2]
          /\ num_vehicles = Len(c[2])
    /\ load_factor = NoLoadFactor
    /\ vehicle_capacity = 0
    /\ outcome = NoOutcome

Init == InitPulp \/ InitFleet \/ InitVrp \/ InitHeuristic

\* cargo_optimization_pulp.optimize_pulp(cargo, priorities, vehicle_capacities)
optimize_pulp ==
    /\ app = "pulp"
    /\ pc = "call"
    /\ IF ParseRaises(capacity_text)
       THEN outcome' = Raised
       ELSE LET caps == ParseCapacities(capacity_text)
            IN \/ \E x \in SolverValues(cargo, caps) :
                      outcome' = PulpReport(x, cargo, caps)
               \/ SolveMayRaise(caps) /\ outcome' = Raised
    /\ pc' = "done"
    /\ UNCHANGED <<app, cargo, capacity_text, demands, vehicle_capacities,
                   num_vehicles, load_factor, vehicle_capacity>>

\* fleet_vrp_gradio_app.solve_vrp(demands, vehicle_capacities, num_vehicles,
\* load_factor)
fleet_solve_vrp ==
    /\ app = "fleet"
    /\ pc = "call"
    /\ IF LoadFactorRaises(load_factor)
       THEN outcome' = ErrorOccurred
       ELSE IF ~RoutingDataAccepted(vehicle_capacities, num_vehicles)
       THEN outcome' \in {ErrorOccurred, Aborted}
       ELSE LET S == FleetSolutions(demands, vehicle_capacities, num_vehicles)
            IN IF S = {}
               THEN outcome' = NoSolution
               ELSE \E sol \in S :
                        outcome' = FleetReport(sol, demands, vehicle_capacities,
                                               num_vehicles,
                                               ParseLoadFactor(load_factor))
    /\ pc' = "done"
    /\ UNCHANGED <<app, cargo, capacity_text, demands, vehicle_capacities,
                   num_vehicles, load_factor, vehicle_capacity>>

\* vrp_gradio_app.solve_vrp(demand_durban, ..., vehicle_capacity)
vrp_solve_vrp ==
    /\ app = "vrp"
    /\ pc = "call"
    /\ LET S == VrpSolutions(demands, vehicle_capacity)
       IN IF S = {}
          THEN outcome' = NoSolution
          ELSE \E sol \in S : outcome' = VrpReport(sol)
    /\ pc' = "done"
    /\ UNCHANGED <<app, cargo, capacity_text, demands, vehicle_capacities,
                   num_vehicles, load_factor, vehicle_capacity>>

\* solveHeuristic(instance, populationSize, generations, crossoverRate,
\* mutationRate, seed): the best individual seen is a permutation of the
\* non-depot cities; which one depends on the seed and the rates, so any
\* permutation may be the one returned.
solveHeuristic ==
    /\ app = "heuristic"
    /\ pc = "call"
    /\ \E perm \in Orders(CityNodes), placeAnyway \in BOOLEAN :
          outcome' = HeuristicSolution(perm, demands, vehicle_capacities, placeAnyway)
    /\ pc' = "done"
    /\ UNCHANGED <<app, cargo, capacity_text, demands, vehicle_capacities,
                   num_vehicles, load_factor, vehicle_capacity>>

Next == optimize_pulp \/ fleet_solve_vrp \/ vrp_solve_vrp \/ solveHeuristic

Spec == Init /\ [][Next]_vars

SpecPulp == InitPulp /\ [][optimize_pulp]_vars
SpecFleet == InitFleet /\ [][fleet_solve_vrp]_vars
SpecVrp == InitVrp /\ [][vrp_solve_vrp]_vars
SpecHeuristic == InitHeuristic /\ [][solveHeuristic]_vars
\* The two route builders together.
SpecRouteBuilders ==
    (InitFleet \/ InitVrp) /\ [][fleet_solve_vrp \/ vrp_solve_vrp]_vars

(***************************************************************************)
(* Properties                                                              *)
(***************************************************************************)
PulpDone == app = "pulp" /\ pc = "done"
FleetDone == app = "fleet" /\ pc = "done"
VrpDone == app = "vrp" /\ pc = "done"
Reported == outcome.kind = "report"

\* The capacity list of a well-formed text, read independently of the parser:
\* the integers of the text in order.
RECURSIVE TextCapacities(_)
TextCapacities(text) ==
    IF text = <<>> THEN <<>>
    ELSE (IF Head(text).kind = "int" THEN <<Head(text).val>> ELSE <<>>)
         \o TextCapacities(Tail(text))

WellFormedText(text) == \A k \in 1 .. Len(text) : text[k].kind # "word"

\* The instances optimize_pulp is specified on: non-negative cargo and a
\* non-empty list of positive capacities.
PulpInstance ==
    /\ WellFormedText(capacity_text)
    /\ \A j \in Cities : cargo[j] >= 0
    /\ LET caps == TextCapacities(capacity_text)
       IN caps # <<>> /\ \A k \in 1 .. Len(caps) : caps[k] > 0

\* Assignments of cities to vehicles 1 .. n within the capacities.
WithinCapacity(a, qty, caps) ==
    \A v \in 1 .. Len(caps) :
        SumOver({j \in DOMAIN a : a[j] = v}, qty) <= caps[v]

FeasibleAssignments(S, qty, caps) ==
    { a \in [S -> 1 .. Len(caps)] : WithinCapacity(a, qty, caps) }

\* Some assignment is feasible (the total is compared first: an assignment
\* within the capacities keeps the total cargo within the total capacity).
SomeFeasible(S, qty, caps) ==
    /\ SumOver(S, qty) <= SumSeq(caps)
    /\ \E a \in [S -> 1 .. Len(caps)] : WithinCapacity(a, qty, caps)

PulpFeasible == SomeFeasible(Cities, cargo, TextCapacities(capacity_text))

LinesWith(j) == { k \in 1 .. Len(outcome.lines) : j \in outcome.lines[k].route }

CollectedUnits ==
    SumSeq([k \in 1 .. Len(outcome.lines) |-> outcome.lines[k].vehicle_cargo])

\* C1: on every feasible instance the report of optimize_pulp puts every city on
\* exactly one vehicle and no vehicle collects more than its capacity; the
\* default instance (cargo 2,1,3,2,6 and capacities 5,5,5,3,8) is reported with
\* all 14 units collected.
C1_FeasibleReportCoversWithinCapacity ==
    (PulpDone /\ PulpInstance /\ PulpFeasible) =>
        /\ Reported
        /\ \A j \in Cities : Cardinality(LinesWith(j)) = 1
        /\ \A k \in 1 .. Len(outcome.lines) :
               LET line == outcome.lines[k]
               IN /\ line.vehicle_cargo = SumOver(line.route, cargo)
                  /\ line.vehicle_cargo <= TextCapacities(capacity_text)[line.vehicle]
        /\ (cargo = PulpDefaultCargo /\ capacity_text = PulpDefaultText)
               => CollectedUnits = 14

C1_Witness ==
    /\ PulpDone /\ Reported
    /\ cargo = PulpDefaultCargo /\ capacity_text = PulpDefaultText
    /\ Len(outcome.lines) >= 3

\* C2: on every instance without a feasible assignment optimize_pulp returns an
\* Infeasible outcome and no report with a total distance.
C2_InfeasibleIsReported ==
    (PulpDone /\ PulpInstance /\ ~PulpFeasible) => outcome.kind = "infeasible"

\* The depot round-trip cost of an assignment: distance(depot, city) over the
\* assigned (vehicle, city) pairs.
AssignmentCost(a, caps) ==
    SumSeq([v \in 1 .. Len(caps) |->
               SumOver({j \in DOMAIN a : a[j] = v}, distances_to_durban)])

\* C3: on every feasible instance the total distance reported by optimize_pulp
\* is the least depot round-trip cost of the feasible assignments.
C3_TotalDistanceIsMinimum ==
    (PulpDone /\ PulpInstance /\ PulpFeasible) =>
        LET caps == TextCapacities(capacity_text)
            F == FeasibleAssignments(Cities, cargo, caps)
        IN /\ Reported
           /\ \A a \in F : outcome.total_distance <= AssignmentCost(a, caps)
           /\ \E a \in F : outcome.total_distance = AssignmentCost(a, caps)

C3_Witness ==
    /\ PulpDone /\ PulpInstance /\ PulpFeasible /\ Reported
    /\ Len(TextCapacities(capacity_text)) = 2
    /\ Len(outcome.lines) = 2
    /\ \E j \in Cities : cargo[j] > 0

\* The demand delivered at a stop: nothing at the depot.
Delivered(n) == IF n = depot THEN 0 ELSE demands[n]

\* What has been delivered at the stops before position m of a route.
LeftBehind(stops, m) == SumSeq([k \in 1 .. (m - 1) |-> Delivered(stops[k])])

\* C4: in every solution of the fleet solve_vrp the capacity dimension is, at
\* every stop of every vehicle, the vehicle's capacity less the demands of the
\* stops left behind, and lies between 0 and the capacity; the loads printed
\* at the stops before the end are these values.
C4_LoadTraceWithinCapacity ==
    (FleetDone /\ Reported) =>
        \A k \in 1 .. Len(outcome.lines) :
            LET line == outcome.lines[k]
                cap == vehicle_capacities[k]
                dim == CumulVar(outcome.solution[k], DeliveryDemands(demands), cap)
            IN /\ Len(dim) = Len(line.stops)
               /\ dim[1] = cap
               /\ \A m \in 1 .. Len(line.stops) :
                      /\ dim[m] = cap - LeftBehind(line.stops, m)
                      /\ 0 <= dim[m] /\ dim[m] <= cap
                      /\ m < Len(line.stops) => line.loads[m] = dim[m]

C4_Witness ==
    /\ FleetDone /\ Reported
    /\ \E k \in 1 .. Len(outcome.lines) :
           /\ Len(outcome.lines[k].stops) >= 4
           /\ outcome.lines[k].loads[3] < vehicle_capacities[k]

\* A call of the fleet solve_vrp that reaches the search: the load factor is a
\* number and there is one capacity for each of at least one vehicle.
FleetWellFormed ==
    /\ load_factor.sep \in {".", ","}
    /\ num_vehicles >= 1
    /\ Len(vehicle_capacities) = num_vehicles

\* The instances the route builder is specified on: no demand below zero.
FleetInstance == FleetWellFormed /\ \A n \in Nodes : demands[n] >= 0

\* The load on board between stop m and stop m + 1: what is left after the
\* delivery at stop m.
CarriedLoad(stops, m, cap) == cap - LeftBehind(stops, m + 1)

\* C5: the fuel of every arc of every reported route is distance x (1 +
\* loadFactor x load carried on the arc), and the route's fuel is their sum
\* (fuel in hundredths, the load factor in hundredths).
C5_FuelUsesLoadOnArc ==
    (FleetDone /\ FleetInstance /\ Reported) =>
        \A k \in 1 .. Len(outcome.lines) :
            LET line == outcome.lines[k]
                stops == line.stops
            IN /\ Len(line.fuels) = Len(stops) - 1
               /\ \A m \in 1 .. (Len(stops) - 1) :
                      line.fuels[m] =
                          distance_matrix[stops[m]][stops[m + 1]]
                          * (100 + load_factor.hundredths
                                   * CarriedLoad(stops, m, vehicle_capacities[k]))
               /\ line.route_fuel = SumSeq(line.fuels)

\* The demands of the stops of a route.
RouteDemand(stops) == SumSeq([m \in 1 .. Len(stops) |-> Delivered(stops[m])])

\* C6: 'Total goods delivered' is the sum of the demands of the cities visited
\* on the reported routes.
C6_TotalDeliveredIsVisitedDemand ==
    (FleetDone /\ FleetInstance /\ Reported) =>
        outcome.total_load =
            SumSeq([k \in 1 .. Len(outcome.lines) |->
                       RouteDemand(outcome.lines[k].stops)])

Visited(n) ==
    \E k \in 1 .. Len(outcome.lines) :
        \E m \in 1 .. Len(outcome.lines[k].stops) : outcome.lines[k].stops[m] = n

\* C7: when no sharing of the cities keeps every vehicle's delivered demand
\* within its capacity the fleet solve_vrp returns the no-solution outcome, and
\* no report leaves a city with positive demand unvisited.
C7_NoSolutionWhenInfeasible ==
    FleetDone =>
        /\ (FleetWellFormed
            /\ outcome.kind # "no_solution")
               => SomeFeasible(CityNodes, demands, vehicle_capacities)
        /\ Reported => \A n \in CityNodes : demands[n] > 0 => Visited(n)

C7_Witness ==
    /\ FleetDone /\ FleetWellFormed
    /\ outcome.kind = "no_solution"
    /\ \E n \in CityNodes :
           \A v \in 1 .. num_vehicles : demands[n] > vehicle_capacities[v]

\* The distance-matrix entries of the consecutive pairs of a sequence of stops.
ConsecutiveArcs(stops) ==
    SumSeq([m \in 1 .. (Len(stops) - 1) |->
               distance_matrix[stops[m]][stops[m + 1]]])

\* C8: every route reported by the two route builders starts and ends at the
\* depot, its distance is the sum over its consecutive stops, the closing arc
\* included, and the total distance is the sum of the route distances.
C8_RouteDistances ==
    ((FleetDone \/ VrpDone) /\ Reported) =>
        /\ \A k \in 1 .. Len(outcome.lines) :
               LET line == outcome.lines[k]
               IN /\ Len(line.stops) >= 2
                  /\ line.stops[1] = depot
                  /\ line.stops[Len(line.stops)] = depot
                  /\ line.route_distance = ConsecutiveArcs(line.stops)
        /\ outcome.total_distance =
               SumSeq([k \in 1 .. Len(outcome.lines) |->
                          outcome.lines[k].route_distance])

C8_Witness ==
    /\ VrpDone /\ Reported
    /\ Len(outcome.lines[1].stops) = num_nodes + 1
    /\ outcome.total_distance > 0

AtMostOneLinePerVehicle ==
    \A k1, k2 \in 1 .. Len(outcome.lines) :
        outcome.lines[k1].vehicle = outcome.lines[k2].vehicle => k1 = k2

LineVehicles == { outcome.lines[k].vehicle : k \in 1 .. Len(outcome.lines) }

\* A line whose vehicle has a city with positive cargo or demand.
CarriesCargo(line) ==
    IF app = "pulp"
    THEN \E j \in line.route : cargo[j] > 0
    ELSE \E m \in 1 .. Len(line.stops) : Delivered(line.stops[m]) > 0

\* C9 as stated: at most one route per vehicle in every solver's output, and
\* no route entry for a vehicle without a city of positive demand.
C9_NoEntryWithoutCargo ==
    (pc = "done" /\ Reported) =>
        /\ AtMostOneLinePerVehicle
        /\ \A k \in 1 .. Len(outcome.lines) : CarriesCargo(outcome.lines[k])

\* C9 amended: at most one entry per vehicle; optimize_pulp has an entry for
\* exactly the vehicles with at least one assigned city, whatever its cargo;
\* the route builders have an entry for every vehicle, also one that visits
\* no city.
C9_EntriesPerVehicle ==
    (pc = "done" /\ Reported) =>
        /\ AtMostOneLinePerVehicle
        /\ app = "pulp" =>
               LineVehicles =
                   { i + 1 : i \in { v \in DOMAIN outcome.solution :
                                         outcome.solution[v] # {} } }
        /\ app = "fleet" => LineVehicles = 0 .. (num_vehicles - 1)
        /\ app = "vrp" => LineVehicles = {0}

C9_Witness ==
    /\ FleetDone /\ Reported
    /\ \E k \in 1 .. Len(outcome.lines) : outcome.lines[k].stops = <<depot, depot>>

\* The calls the specification calls invalid.
InvalidInput ==
    \/ /\ app = "pulp"
       /\ \/ \E j \in Cities : cargo[j] < 0
          \/ ~WellFormedText(capacity_text)
          \/ TextCapacities(capacity_text) = <<>>
    \/ /\ app = "fleet"
       /\ \/ \E n \in CityNodes : demands[n] < 0
          \/ vehicle_capacities = <<>>
          \/ num_vehicles # Len(vehicle_capacities)

\* C10: optimize_pulp and the fleet solve_vrp answer every invalid call with
\* an InvalidInput outcome.
C10_InvalidInputIsRejected ==
    (pc = "done" /\ InvalidInput) => outcome.kind = "invalid_input"

\* A call on a well-formed instance that has a feasible assignment: the solve
\* ends optimal and the report is read from an optimal point.
PulpSolved == PulpDone /\ Reported /\ PulpInstance /\ PulpFeasible

\* The same instance, about to be given to optimize_pulp.
PulpToSolve == app = "pulp" /\ pc = "call" /\ PulpInstance /\ PulpFeasible

\* C11: on an instance the solver solves to optimality, every run of
\* optimize_pulp reports the same total distance: all the optimal assignments
\* a run on the instance may return have one total distance, and the total a
\* run reports is the one of the assignment it returned, also when two runs
\* return different assignments.
C11_SameTotalOnEveryRun ==
    /\ PulpToSolve =>
           LET caps == ParseCapacities(capacity_text)
               runs == SolverValues(cargo, caps)
               one == CHOOSE x \in runs : TRUE
           IN \A x \in runs :
                  PulpReport(x, cargo, caps).total_distance
                      = PulpReport(one, cargo, caps).total_distance
    /\ PulpSolved =>
           outcome.total_distance
               = PulpReport(outcome.solution, cargo,
                            ParseCapacities(capacity_text)).total_distance

C11_Witness ==
    /\ PulpSolved
    /\ \E x \in SolverValues(cargo, ParseCapacities(capacity_text)) :
           /\ x # outcome.solution
           /\ PulpReport(x, cargo, ParseCapacities(capacity_text)).lines
                  # outcome.lines

HeuristicDone == app = "heuristic" /\ pc = "done"

\* The cities on the routes of the returned solution.
ServedCities ==
    UNION { { outcome.lines[k].stops[m] : m \in 1 .. Len(outcome.lines[k].stops) } :
                k \in 1 .. Len(outcome.lines) }

\* The vehicle whose route holds city c (0 when no route does).
VehicleOf(c) ==
    IF c \in ServedCities
    THEN outcome.lines[CHOOSE k \in 1 .. Len(outcome.lines) :
                           \E m \in 1 .. Len(outcome.lines[k].stops) :
                               outcome.lines[k].stops[m] = c].vehicle
    ELSE 0

\* The load vehicle v holds from the first p cities of the permutation.
LoadBefore(v, p) ==
    SumOver({ q \in 1 .. p : VehicleOf(outcome.solution[q]) = v },
            [q \in 1 .. Len(outcome.solution) |-> demands[outcome.solution[q]]])

\* C12: solveHeuristic always returns a Solution.  Along the permutation it
\* decoded the vehicles are used in index order and never revisited; a city
\* stays on the vehicle of the city before it when its demand still fits and
\* moves on only when it would exceed that vehicle's capacity; once a city is
\* unserved all later ones are; and the served cities and unservedCities are
\* disjoint and together are all the cities.
C12_HeuristicAlwaysReturnsSolution ==
    HeuristicDone =>
        LET perm == outcome.solution
        IN /\ outcome.kind = "report"
           /\ ServedCities \cup outcome.unservedCities = CityNodes
           /\ ServedCities \cap outcome.unservedCities = {}
           /\ \A k \in 1 .. Len(outcome.lines) :
                  \A m1, m2 \in 1 .. Len(outcome.lines[k].stops) :
                      m1 # m2 => outcome.lines[k].stops[m1] # outcome.lines[k].stops[m2]
           /\ \A p \in 1 .. (Len(perm) - 1) :
                  LET c == perm[p]
                      n == perm[p + 1]
                  IN /\ c \in outcome.unservedCities => n \in outcome.unservedCities
                     /\ (c \in ServedCities /\ n \in ServedCities)
                            => VehicleOf(c) <= VehicleOf(n)
                     /\ (c \in ServedCities /\ VehicleOf(n) # VehicleOf(c))
                            => LoadBefore(VehicleOf(c), p) + demands[n]
                                   > vehicle_capacities[VehicleOf(c)]
                     /\ (c \in ServedCities /\ VehicleOf(n) = VehicleOf(c))
                            => LoadBefore(VehicleOf(c), p) + demands[n]
                                   <= vehicle_capacities[VehicleOf(c)]

C12_Witness ==
    /\ HeuristicDone
    /\ outcome.unservedCities # {}
    /\ Len(outcome.lines) >= 2

\* The instances the single-vehicle builder is specified on.
VrpInstance == \A n \in Nodes : demands[n] >= 0

\* The load accumulated on arrival at the m-th stop: the demands of the stops
\* left before it.
AccumulatedLoad(stops, m) ==
    SumSeq([q \in 1 .. (m - 1) |-> demands[stops[q]]])

\* C13: for non-negative demands the single-vehicle solve_vrp returns a route
\* exactly when the five entered demands, the depot's included, sum to at most
\* the vehicle capacity, and the no-solution message otherwise; on the returned
\* route the accumulated load is 0 at the start depot and at most the capacity
\* at every stop, and every city is visited exactly once between the depots.
C13_SingleVehicleRouteIffTotalFits ==
    (VrpDone /\ VrpInstance) =>
        /\ Reported <=> SumOver(Nodes, demands) <= vehicle_capacity
        /\ ~Reported => outcome.kind = "no_solution"
        /\ Reported =>
              LET stops == outcome.lines[1].stops
              IN /\ Len(outcome.lines) = 1
                 /\ Len(stops) = num_nodes + 1
                 /\ stops[1] = depot /\ stops[Len(stops)] = depot
                 /\ \A n \in CityNodes :
                        Cardinality({ m \in 2 .. (Len(stops) - 1) : stops[m] = n }) = 1
                 /\ AccumulatedLoad(stops, 1) = 0
                 /\ \A m \in 1 .. Len(stops) :
                        AccumulatedLoad(stops, m) <= vehicle_capacity

C13_Witness ==
    /\ VrpDone /\ VrpInstance /\ Reported
    /\ demands[depot] > 0
    /\ SumOver(Nodes, demands) = vehicle_capacity
    /\ \E n \in CityNodes : demands[n] > 0

\* The no-solution side of C13 happens: the cities alone would fit.
C13_DepotDemandDecides ==
    /\ VrpDone /\ VrpInstance /\ outcome.kind = "no_solution"
    /\ SumOver(CityNodes, demands) <= vehicle_capacity

\* optimize_pulp parsed the capacity list and its model has a feasible point.
PulpFoundFeasible ==
    /\ PulpDone /\ Reported
    /\ ~ParseRaises(capacity_text)
    /\ SomeFeasible(Cities, cargo, ParseCapacities(capacity_text))

\* The model optimize_pulp is about to build for the call has a feasible point.
PulpModelFeasible ==
    /\ app = "pulp" /\ pc = "call"
    /\ ~ParseRaises(capacity_text)
    /\ SomeFeasible(Cities, cargo, ParseCapacities(capacity_text))

\* C14: whenever optimize_pulp finds a feasible assignment the reported total
\* distance is the sum of the five depot distances, 568+635+569+330+392 = 2494,
\* whatever the cargo values and capacities are, cities of cargo 0 included;
\* the objective has that value on every feasible point, so every feasible
\* point is a minimum.
C14_TotalDistanceIsConstant ==
    /\ PulpFoundFeasible =>
           /\ outcome.total_distance = 568 + 635 + 569 + 330 + 392
           /\ outcome.total_distance = 2494
    /\ PulpModelFeasible =>
           LET caps == ParseCapacities(capacity_text)
           IN /\ \A x \in FeasibleRegion(cargo, caps) : Objective(x, caps) = 2494
              /\ SolverValues(cargo, caps) = FeasibleRegion(cargo, caps)

C14_Witness ==
    /\ PulpFoundFeasible
    /\ \E j \in Cities : cargo[j] = 0
    /\ \E j \in Cities : cargo[j] > 0
    /\ Len(outcome.lines) >= 2
    /\ outcome.total_distance = 2494

\* The call with e entered for the depot's demand instead.
WithDepotEntry(e) == [demands EXCEPT ![depot] = e]

\* C15: the fleet solve_vrp ignores the demand entered for the depot: what a
\* call returned is returned as well, from the same routes, by the call that
\* differs only in the integer entered for demands[0] (the report is the same,
\* no solution stays no solution, an error does not depend on the demands);
\* the single-vehicle solve_vrp counts the depot's demand against the
\* capacity: for non-negative demands it returns a route only if the depot's
\* demand fits in what the cities leave of the capacity.
C15_FleetIgnoresDepotDemand ==
    /\ FleetDone =>
           \A e \in DepotEntries :
               /\ Reported =>
                      /\ \A v \in 1 .. num_vehicles :
                             FleetRouteFeasible(outcome.solution[v], WithDepotEntry(e),
                                                vehicle_capacities[v])
                      /\ FleetReport(outcome.solution, WithDepotEntry(e),
                                     vehicle_capacities, num_vehicles,
                                     ParseLoadFactor(load_factor)) = outcome
               /\ outcome.kind = "no_solution" =>
                      FleetSolutions(WithDepotEntry(e), vehicle_capacities,
                                     num_vehicles) = {}
               /\ outcome.kind \in {"error", "aborted"} =>
                      \/ LoadFactorRaises(load_factor)
                      \/ ~RoutingDataAccepted(vehicle_capacities, num_vehicles)
    /\ (VrpDone /\ VrpInstance) =>
           /\ Reported =>
                  demands[depot] <= vehicle_capacity - SumOver(CityNodes, demands)
           /\ ~Reported =>
                  demands[depot] > vehicle_capacity - SumOver(CityNodes, demands)

C15_Witness ==
    /\ FleetDone /\ Reported
    /\ \A v \in 1 .. num_vehicles : demands[depot] > vehicle_capacities[v]
    /\ outcome.total_load > 0

====
